---- MODULE Spec2Model ----
(***************************************************************************)
(* A model of steamsaves_sync.py: the reconciliation of the steam save     *)
(* directory and the Dropbox directory of the one configured game entry    *)
(* (PillarsOfEternity, with the POESaveName / POESaveTime callbacks).      *)
(*                                                                         *)
(* A file name is a sequence of space-separated tokens, a token a sequence *)
(* of pieces, so that rpartition(" "), startswith and endswith are         *)
(* computed on the name.  A file is a record: kind ("zip" for an archive   *)
(* whose saveinfo.xml can be read, "bad" for anything else, "none" for no  *)
(* file), user (the UserSaveName value, "" when the element is absent), ts *)
(* (the RealTimestamp as epoch seconds, 0 when the element is absent) and  *)
(* sig (the os.stat signature, size and mtime, that filecmp.cmp looks at   *)
(* first).  kind, user and ts are the bytes of the file.                   *)
(***************************************************************************)
EXTENDS Integers, Sequences, FiniteSets, TLC

\* ------------------------------------------------------------------ bounds
\* At most MaxFiles files exist in the two directories together at start.
MaxFiles == 3
\* The script is run MaxRuns times in succession.
MaxRuns == 2

\* --------------------------------------------------------- program constants
RelTolInv == 1000000000
AbsTol == 0

IGNORE == "__IGNORE__"
EMPTY == ""
\* the outcome of a callback that raises instead of returning
RAISE == "#raise#"

saveSuffix == "savegame"
entryName == "PillarsOfEternity"
steamPath == <<"/home/lefteris/", ".local/share/PillarsOfEternity/SavedGames">>
dropboxPath == <<"/home/lefteris/", "Dropbox/saves/PillarsOfEternity">>

\* ------------------------------------------------------ the bounded universe
SaveNames == { << <<"g1">>, <<"Hero", ".", "savegame">> >>,
               << <<"g2">>, <<"Boss", ".", "savegame">> >> }
AutoName == << <<"g1">>, <<"autosave_", "001", ".", "savegame">> >>
BadName == << <<"quicksave", ".", "savegame">> >>
TxtName == << <<"g1">>, <<"notes", ".", "txt">> >>
OtherNames == {AutoName, BadName, TxtName}
Names == SaveNames \cup OtherNames

NoFile == [kind |-> "none", user |-> "", ts |-> 0, sig |-> 0]
BadZip == [kind |-> "bad", user |-> "", ts |-> 0, sig |-> 1]
Times == {0, 1500000000, 1500000001, 1500000002}
\* The archives of save "A" carry every timestamp; one of them exists with a
\* second stat signature.  "B" is a second save, and one archive has no
\* UserSaveName element.
SaveContents ==
    [kind : {"zip"}, user : {"A"}, ts : Times, sig : {1}]
    \cup [kind : {"zip"}, user : {"A"}, ts : {1500000000}, sig : {2}]
    \cup [kind : {"zip"}, user : {"B"}, ts : {1500000000}, sig : {1}]
    \cup [kind : {"zip"}, user : {EMPTY}, ts : {1500000000}, sig : {1}]
    \cup {BadZip}
OtherContent == [kind |-> "zip", user |-> "A", ts |-> 1500000002, sig |-> 2]

VARIABLES
    steam,       \* the steam directory: name -> file (NoFile when absent)
    dbox,        \* the Dropbox directory
    steamFiles,  \* syncEntry's local steamFiles (a list of names)
    dboxFiles,   \* syncEntry's local dboxFiles
    pc,          \* position: "start", "pass1", "pass2", "done", or how the process
                 \* ended: "exited", "crashed", "unreadable", "copyfailed"
    idx,         \* position of the running for loop in its list
    run,         \* number of the current run of the script
    events,      \* the calls of notify so far
    copies,      \* the calls of shutil.copy so far
    steam0,      \* the steam directory when the current run started
    dbox0,       \* the Dropbox directory when the current run started
    gentry,      \* the GameEntry being synced: name, steamPath, dropboxPath
    readable     \* whether listdir can read the steam / the Dropbox directory

vars == <<steam, dbox, steamFiles, dboxFiles, pc, idx, run, events, copies,
          steam0, dbox0, gentry, readable>>

\* ------------------------------------------------------------------ helpers
Abs(x) == IF x < 0 THEN -x ELSE x
Max(a, b) == IF a >= b THEN a ELSE b
Last(s) == s[Len(s)]
StartsWith(s, p) == Len(p) <= Len(s) /\ SubSeq(s, 1, Len(p)) = p
Perms(S) == {s \in [1..Cardinality(S) -> S] : \A i, j \in 1..Cardinality(S) : s[i] = s[j] => i = j}
Present(dir) == {n \in Names : dir[n] # NoFile}

\* join(path, name) as a sequence of pieces; tokens are joined by " "
RECURSIVE JoinTokens(_)
JoinTokens(tokens) ==
    IF Len(tokens) = 0 THEN <<>>
    ELSE IF Len(tokens) = 1 THEN tokens[1]
    ELSE tokens[1] \o <<" ">> \o JoinTokens(Tail(tokens))
PathOf(dirName, n) ==
    (IF dirName = "steam" THEN gentry.steamPath ELSE gentry.dropboxPath) \o <<"/">> \o JoinTokens(n)

\* (isclose_Exact is exact equality, the comparison without a tolerance.)
\* isclose(a, b): abs(a-b) <= max(rel_tol * max(abs(a), abs(b)), abs_tol).
\* The timestamps are whole seconds, so rel_tol * m is compared as m \div 10^9.
isclose_Exact(a, b) == a = b
isclose(a, b) == Abs(a - b) <= Max(Max(Abs(a), Abs(b)) \div RelTolInv, AbsTol)

\* POESaveName(f): "" for a name without a space, IGNORE for an autosave,
\* otherwise the UserSaveName of the archive; raises when the archive or its
\* saveinfo.xml cannot be read.
POESaveName(n, file) ==
    IF Len(n) = 1 THEN EMPTY
    ELSE IF Len(Last(n)) > 0 /\ Last(n)[1] = "autosave_" THEN IGNORE
    ELSE IF file.kind # "zip" THEN RAISE
    ELSE file.user

\* POESaveTime(f): the RealTimestamp, 0 when the element is absent.
POESaveTime(file) == IF file.kind # "zip" THEN RAISE ELSE file.ts

\* getFileList(path, saveSuffix): the regular files whose name ends with the
\* suffix, in the order listdir yields them (any order).
getFileList(dir) ==
    Perms({n \in Present(dir) : Last(Last(n)) = saveSuffix})

\* findFileFromBasename(fileList, gentry, baseName)
RECURSIVE findFileFromBasename(_, _, _)
findFileFromBasename(fileList, dir, baseName) ==
    IF Len(fileList) = 0 THEN [st |-> "none", name |-> <<>>]
    ELSE LET r == POESaveName(Head(fileList), dir[Head(fileList)])
         IN  IF r = RAISE THEN [st |-> "raise", name |-> <<>>]
             ELSE IF r = baseName THEN [st |-> "found", name |-> Head(fileList)]
             ELSE findFileFromBasename(Tail(fileList), dir, baseName)

\* compareFileTimes without the check of a zero timestamp
compareFileTimes_NoZeroCheck(file1, file2) ==
    LET t1 == POESaveTime(file1)
        t2 == POESaveTime(file2)
    IN  IF isclose(t1, t2) THEN "0"
        ELSE IF t1 > t2 THEN "1"
        ELSE "-1"

\* compareFileTimes(file1, file2, gentry): 0, 1 or -1, or exit(1) ("exit")
compareFileTimes(file1, file2) ==
    LET t1 == POESaveTime(file1)
        t2 == POESaveTime(file2)
    IN  IF t1 = 0 \/ t2 = 0 THEN "exit"
        ELSE IF isclose(t1, t2) THEN "0"
        ELSE IF t1 > t2 THEN "1"
        ELSE "-1"

\* savesAreSame(s1, s2) = filecmp.cmp(s1, s2), shallow: equal stat signatures
\* count as the same file, otherwise the bytes are compared.
SameBytes(f, g) == f.kind = g.kind /\ f.user = g.user /\ f.ts = g.ts
savesAreSame(s1, s2) == s1.sig = s2.sig \/ SameBytes(s1, s2)

\* shutil.copy(src, dst): the bytes of src with a new modification time
NewSig == 10 + Len(copies)
Copied(file) == [file EXCEPT !.sig = NewSig]

\* The arguments of one notify call (title, message, priority); about and run
\* record the file whose iteration made the call and the run it was made in.
SyncedEvent(fromDir, n, file) ==
    [title |-> <<"Synced save for", gentry.name>>,
     message |-> <<"Synced save", POESaveName(n, file),
                   IF StartsWith(PathOf(fromDir, n), gentry.dropboxPath) THEN "from" ELSE "to",
                   "Dropbox">>,
     priority |-> "normal", about |-> [dir |-> fromDir, name |-> n], run |-> run]
ExtractFailEvent(dirName, n) ==
    [title |-> <<"Failed to extract name from save file", PathOf(dirName, n)>>,
     message |-> <<>>,
     priority |-> "normal", about |-> [dir |-> dirName, name |-> n], run |-> run]
ConflictEvent(n) ==
    [title |-> <<"Failed to sync save for", gentry.name>>,
     message |-> <<"Save file {} exists in both steam and dropbox with different contents but same modification timestamp">>,
     priority |-> "critical", about |-> [dir |-> "steam", name |-> n], run |-> run]
CopyRec(fromDir, fromName, toDir, toName, file, over, pass) ==
    [src |-> [dir |-> fromDir, name |-> fromName],
     dst |-> [dir |-> toDir, name |-> toName],
     id |-> POESaveName(fromName, file), bytes |-> file, over |-> over,
     pass |-> pass, run |-> run]

\* ------------------------------------------------------------------ Init
\* Any two directories holding at most MaxFiles files together.
Slots == {"steam", "dbox"} \X Names
SlotSets == {S \in SUBSET Slots : Cardinality(S) <= MaxFiles}
DirFrom(dirName, S, a) ==
    [n \in Names |->
        IF <<dirName, n>> \notin S THEN NoFile
        ELSE IF n \in SaveNames THEN a[<<dirName, n>>]
        ELSE OtherContent]

\* gamesList, lines 131-140
gamesList ==
    <<[name |-> entryName, steamPath |-> steamPath, dropboxPath |-> dropboxPath]>>

\* The directories of the entry; a directory that does not exist or cannot be
\* read shows no file.
InitDirs ==
    /\ \E S \in SlotSets :
         \E a \in [{s \in S : s[2] \in SaveNames} -> SaveContents] :
            /\ steam = DirFrom("steam", S, a)
            /\ dbox = DirFrom("dbox", S, a)
    /\ readable \in [steam : BOOLEAN, dbox : BOOLEAN]
    /\ ~readable.steam => Present(steam) = {}
    /\ ~readable.dbox => Present(dbox) = {}
    /\ steamFiles = <<>> /\ dboxFiles = <<>>
    /\ pc = "start" /\ idx = 1 /\ run = 1
    /\ events = <<>> /\ copies = <<>>
    /\ steam0 = steam /\ dbox0 = dbox

Init == InitDirs /\ gentry = gamesList[1]

\* ------------------------------------------------------------ syncEntry
\* lines 212-213: the two listings
ListDirs ==
    /\ pc = "start"
    /\ readable.steam /\ readable.dbox
    /\ steamFiles' \in getFileList(steam)
    /\ dboxFiles' \in getFileList(dbox)
    /\ pc' = "pass1" /\ idx' = 1
    /\ steam0' = steam /\ dbox0' = dbox
    /\ UNCHANGED <<steam, dbox, run, events, copies, gentry, readable>>

\* lines 144, 212-213: listdir raises on a directory it cannot read; nothing
\* catches the exception and the process ends
ListDirsRaises ==
    /\ pc = "start"
    /\ ~readable.steam \/ ~readable.dbox
    /\ pc' = "unreadable"
    /\ UNCHANGED <<steam, dbox, steamFiles, dboxFiles, idx, run, events, copies,
                   steam0, dbox0, gentry, readable>>

\* syncSave(fromFile, toFile, gentry): the copy, then the notification
syncSave(fromDir, fromName, toDir, toName, pass) ==
    LET src == IF fromDir = "steam" THEN steam[fromName] ELSE dbox[fromName]
        old == IF toDir = "steam" THEN steam[toName] ELSE dbox[toName]
    IN  /\ IF toDir = "steam"
           THEN steam' = [steam EXCEPT ![toName] = Copied(src)] /\ dbox' = dbox
           ELSE dbox' = [dbox EXCEPT ![toName] = Copied(src)] /\ steam' = steam
        /\ copies' = Append(copies, CopyRec(fromDir, fromName, toDir, toName, src, old, pass))
        /\ events' = Append(events, SyncedEvent(fromDir, fromName, src))

Crash ==
    /\ pc' = "crashed"
    /\ UNCHANGED <<steam, dbox, steamFiles, dboxFiles, idx, run, events, copies, steam0, dbox0, gentry, readable>>

Skip ==
    /\ idx' = idx + 1
    /\ UNCHANGED <<steamFiles, dboxFiles, pc, run, steam0, dbox0, gentry, readable>>

InPass1 == pc = "pass1" /\ idx <= Len(steamFiles)
f1 == steamFiles[idx]
baseName1 == POESaveName(f1, steam[f1])
\* pass one without the IGNORE branch
Resolved1_NoIgnore == InPass1 /\ baseName1 \notin {RAISE, EMPTY}
Resolved1 == InPass1 /\ baseName1 \notin {RAISE, EMPTY, IGNORE}
dboxFile == findFileFromBasename(dboxFiles, dbox, baseName1)
Differ1 == Resolved1 /\ dboxFile.st = "found" /\ ~savesAreSame(dbox[dboxFile.name], steam[f1])
\* a comparison that yields the raw sign distance for an older first file
cmpres_Raw ==
    LET r == compareFileTimes(steam[f1], dbox[dboxFile.name])
    IN  IF r = "-1" THEN "-2" ELSE r
cmpres == compareFileTimes(steam[f1], dbox[dboxFile.name])

\* line 216: the name callback raises on the iterated steam file
P1NameRaises == InPass1 /\ baseName1 = RAISE /\ Crash

\* the EMPTY branch of pass one without its notify call
P1ExtractFail_Silent ==
    /\ InPass1 /\ baseName1 = EMPTY
    /\ Skip /\ UNCHANGED <<steam, dbox, copies, events>>

\* lines 217-223
P1ExtractFail ==
    /\ InPass1 /\ baseName1 = EMPTY
    /\ events' = Append(events, ExtractFailEvent("steam", f1))
    /\ Skip /\ UNCHANGED <<steam, dbox, copies>>

\* lines 224-225
P1Ignore ==
    /\ InPass1 /\ baseName1 = IGNORE
    /\ Skip /\ UNCHANGED <<steam, dbox, copies, events>>

\* line 226: the name callback raises on a scanned Dropbox file
P1LookupRaises == Resolved1 /\ dboxFile.st = "raise" /\ Crash

\* lines 227-228: a counterpart with the same content
P1Same ==
    /\ Resolved1 /\ dboxFile.st = "found"
    /\ savesAreSame(dbox[dboxFile.name], steam[f1])
    /\ Skip /\ UNCHANGED <<steam, dbox, copies, events>>

\* lines 231, 167-169: a timestamp is 0, exit(1)
P1TimeFail ==
    /\ Differ1 /\ cmpres = "exit"
    /\ pc' = "exited"
    /\ UNCHANGED <<steam, dbox, steamFiles, dboxFiles, idx, run, events, copies, steam0, dbox0, gentry, readable>>

\* lines 232-240
P1Conflict ==
    /\ Differ1 /\ cmpres = "0"
    /\ events' = Append(events, ConflictEvent(f1))
    /\ Skip /\ UNCHANGED <<steam, dbox, copies>>

\* lines 241-243
P1FirstNewer ==
    /\ Differ1 /\ cmpres = "1"
    /\ syncSave("steam", f1, "dbox", dboxFile.name, 1)
    /\ Skip

\* lines 244-246
P1SecondNewer ==
    /\ Differ1 /\ cmpres = "-1"
    /\ syncSave("dbox", dboxFile.name, "steam", f1, 1)
    /\ Skip

\* lines 247-250: the else branch ("should never happen"): the comparison
\* yielded none of 0, 1, -1.  No state enables it, so it is not part of Next.
InternalErrorEvent ==
    [title |-> <<"Internal script error">>, message |-> <<>>,
     priority |-> "critical", about |-> [dir |-> "steam", name |-> f1], run |-> run]
InternalErrorBranch == Differ1 /\ cmpres \notin {"exit", "0", "1", "-1"}
P1InternalError ==
    /\ InternalErrorBranch
    /\ events' = Append(events, InternalErrorEvent)
    /\ pc' = "exited"
    /\ UNCHANGED <<steam, dbox, steamFiles, dboxFiles, idx, run, copies, steam0, dbox0,
                   gentry, readable>>

\* lines 251-253: no counterpart, copy into the Dropbox directory
P1Backup ==
    /\ Resolved1 /\ dboxFile.st = "none"
    /\ syncSave("steam", f1, "dbox", f1, 1)
    /\ Skip

\* lines 255-256: the listings are taken again
Relist ==
    /\ pc = "pass1" /\ idx > Len(steamFiles)
    /\ steamFiles' \in getFileList(steam)
    /\ dboxFiles' \in getFileList(dbox)
    /\ pc' = "pass2" /\ idx' = 1
    /\ UNCHANGED <<steam, dbox, run, events, copies, steam0, dbox0, gentry, readable>>

InPass2 == pc = "pass2" /\ idx <= Len(dboxFiles)
f2 == dboxFiles[idx]
baseName2 == POESaveName(f2, dbox[f2])
Resolved2 == InPass2 /\ baseName2 \notin {RAISE, EMPTY, IGNORE}
steamFile == findFileFromBasename(steamFiles, steam, baseName2)

\* line 259
P2NameRaises == InPass2 /\ baseName2 = RAISE /\ Crash

\* lines 260-266
P2ExtractFail ==
    /\ InPass2 /\ baseName2 = EMPTY
    /\ events' = Append(events, ExtractFailEvent("dbox", f2))
    /\ Skip /\ UNCHANGED <<steam, dbox, copies>>

\* lines 267-268
P2Ignore ==
    /\ InPass2 /\ baseName2 = IGNORE
    /\ Skip /\ UNCHANGED <<steam, dbox, copies, events>>

\* (The lookup of line 269 cannot raise: every listed steam file was resolved
\* by pass one, which ends the run when the callback raises.)

\* lines 269-270: a counterpart exists
P2Found ==
    /\ Resolved2 /\ steamFile.st = "found"
    /\ Skip /\ UNCHANGED <<steam, dbox, copies, events>>

\* lines 270-271: no counterpart, copy into the steam directory
P2Restore ==
    /\ Resolved2 /\ steamFile.st = "none"
    /\ syncSave("dbox", f2, "steam", f2, 2)
    /\ Skip

\* The destination of the copy the current iteration is about to make, if any.
CopyTarget ==
    IF Resolved1
    THEN IF dboxFile.st = "none" THEN {[dir |-> "dbox", name |-> f1]}
         ELSE IF Differ1 /\ cmpres = "1" THEN {[dir |-> "dbox", name |-> dboxFile.name]}
         ELSE IF Differ1 /\ cmpres = "-1" THEN {[dir |-> "steam", name |-> f1]}
         ELSE {}
    ELSE IF Resolved2 /\ steamFile.st = "none" THEN {[dir |-> "steam", name |-> f2]}
    ELSE {}

\* line 180: shutil.copy raises (permissions, disk full, path vanished).  The
\* destination is untouched or left with part of the bytes; line 181 is not
\* reached, nothing catches the exception and the process ends.
Partial == [kind |-> "bad", user |-> "", ts |-> 0, sig |-> NewSig]
CopyRaises ==
    /\ \E t \in CopyTarget : \E written \in BOOLEAN :
         IF t.dir = "steam"
         THEN /\ steam' = IF written THEN [steam EXCEPT ![t.name] = Partial] ELSE steam
              /\ dbox' = dbox
         ELSE /\ dbox' = IF written THEN [dbox EXCEPT ![t.name] = Partial] ELSE dbox
              /\ steam' = steam
    /\ pc' = "copyfailed"
    /\ UNCHANGED <<steamFiles, dboxFiles, idx, run, events, copies, steam0, dbox0,
                   gentry, readable>>

\* syncEntry returns
Finish ==
    /\ pc = "pass2" /\ idx > Len(dboxFiles)
    /\ pc' = "done"
    /\ UNCHANGED <<steam, dbox, steamFiles, dboxFiles, idx, run, events, copies, steam0, dbox0, gentry, readable>>

\* the script is run again on the directories as it left them
NextRun ==
    /\ pc = "done" /\ run < MaxRuns
    /\ run' = run + 1 /\ pc' = "start" /\ idx' = 1
    /\ steamFiles' = <<>> /\ dboxFiles' = <<>>
    /\ UNCHANGED <<steam, dbox, events, copies, steam0, dbox0, gentry, readable>>

Next ==
    \/ ListDirs
    \/ ListDirsRaises
    \/ P1NameRaises
    \/ P1ExtractFail
    \/ P1Ignore
    \/ P1LookupRaises
    \/ P1Same
    \/ P1TimeFail
    \/ P1Conflict
    \/ P1FirstNewer
    \/ P1SecondNewer
    \/ P1Backup
    \/ Relist
    \/ P2NameRaises
    \/ P2ExtractFail
    \/ P2Ignore
    \/ P2Found
    \/ P2Restore
    \/ CopyRaises
    \/ Finish
    \/ NextRun

Spec == Init /\ [][Next]_vars

\* ---------------------------------------------------- vocabulary of the claims
Valid(id) == id \notin {RAISE, EMPTY, IGNORE}
Listed(dir) == {n \in Present(dir) : Last(Last(n)) = saveSuffix}
Holders(dir, id) == {n \in Listed(dir) : POESaveName(n, dir[n]) = id}
Identities == {"A", "B"}
Done1 == pc = "done" /\ run = 1
CopiesOf(id, r) == {k \in 1..Len(copies) : copies[k].run = r /\ copies[k].id = id}
SyncedOf(id, r) ==
    {k \in 1..Len(events) : /\ events[k].run = r
                            /\ events[k].title[1] = "Synced save for"
                            /\ events[k].message[2] = id}
Criticals(r) == {k \in 1..Len(events) : events[k].run = r /\ events[k].priority = "critical"}
\* the identity is held by one file on each side when the run starts
Paired(id, f, g) == Holders(steam0, id) = {f} /\ Holders(dbox0, id) = {g}
Diverged(f, g) == ~SameBytes(steam0[f], dbox0[g])
T1(f) == steam0[f].ts
T2(g) == dbox0[g].ts

\* C1: when a run completes, every save held only by the steam directory, or
\* only by the Dropbox directory, at the start of the run has been copied to
\* the other side, and both directories hold the save with its original bytes.
C1_OneSidedPropagated ==
    Done1 =>
      /\ \A n \in Listed(steam0) :
           LET id == POESaveName(n, steam0[n])
           IN  Valid(id) /\ Holders(dbox0, id) = {} =>
                 /\ \E k \in CopiesOf(id, 1) : copies[k].src = [dir |-> "steam", name |-> n]
                                                /\ copies[k].dst.dir = "dbox"
                 /\ \E m \in Holders(dbox, id) : SameBytes(dbox[m], steam0[n])
                 /\ \E m \in Holders(steam, id) : SameBytes(steam[m], steam0[n])
      /\ \A n \in Listed(dbox0) :
           LET id == POESaveName(n, dbox0[n])
           IN  Valid(id) /\ Holders(steam0, id) = {} =>
                 /\ \E k \in CopiesOf(id, 1) : copies[k].src = [dir |-> "dbox", name |-> n]
                                                /\ copies[k].dst.dir = "steam"
                 /\ \E m \in Holders(steam, id) : SameBytes(steam[m], dbox0[n])
                 /\ \E m \in Holders(dbox, id) : SameBytes(dbox[m], dbox0[n])

\* C2: when a run completes, a save held by one file on each side with
\* differing bytes, whose steam file is newer (outside tolerance), has been
\* copied exactly once, steam file over Dropbox file, with exactly one sync
\* event "to Dropbox"; when the Dropbox file is newer, exactly once, Dropbox
\* file over steam file.  The newer file is unchanged.
C2_NewerWins ==
    Done1 =>
      \A id \in Identities : \A f, g \in Names :
        Paired(id, f, g) /\ Diverged(f, g) /\ T1(f) # 0 /\ T2(g) # 0 /\ ~isclose(T1(f), T2(g)) =>
          /\ Cardinality(CopiesOf(id, 1)) = 1
          /\ Cardinality(SyncedOf(id, 1)) = 1
          /\ \A k \in CopiesOf(id, 1) :
               IF T1(f) > T2(g)
               THEN /\ copies[k].src = [dir |-> "steam", name |-> f]
                    /\ copies[k].dst = [dir |-> "dbox", name |-> g]
               ELSE /\ copies[k].src = [dir |-> "dbox", name |-> g]
                    /\ copies[k].dst = [dir |-> "steam", name |-> f]
          /\ \A k \in SyncedOf(id, 1) :
               events[k].message[3] = IF T1(f) > T2(g) THEN "to" ELSE "from"
          /\ IF T1(f) > T2(g)
             THEN steam[f] = steam0[f] /\ SameBytes(dbox[g], steam0[f])
             ELSE dbox[g] = dbox0[g] /\ SameBytes(steam[f], dbox0[g])

\* C3: when a run completes, a save held by one file on each side with
\* differing bytes and timestamps that compare Equal has not been copied, both
\* files are unchanged, and exactly one critical event was emitted.
C3_TieNeverResolved ==
    Done1 =>
      \A id \in Identities : \A f, g \in Names :
        Paired(id, f, g) /\ Diverged(f, g) /\ T1(f) # 0 /\ T2(g) # 0 /\ isclose(T1(f), T2(g)) =>
          /\ CopiesOf(id, 1) = {}
          /\ steam[f] = steam0[f] /\ dbox[g] = dbox0[g]
          /\ Cardinality(Criticals(1)) = 1

\* C4: a second run on the directories the first run left performs no copy.
C4_SecondRunCopiesNothing ==
    pc = "done" /\ run = 2 => \A k \in 1..Len(copies) : copies[k].run # 2

\* C5: when a run completes, a save held by one file on each side with the
\* same bytes was not copied, no event was emitted for it, and both files
\* are unchanged.
C5_SameContentUntouched ==
    Done1 =>
      \A id \in Identities : \A f, g \in Names :
        Paired(id, f, g) /\ ~Diverged(f, g) =>
          /\ CopiesOf(id, 1) = {}
          /\ \A k \in 1..Len(events) :
               events[k].run = 1 =>
                 /\ events[k].about \notin {[dir |-> "steam", name |-> f], [dir |-> "dbox", name |-> g]}
                 /\ events[k].title[1] = "Synced save for" => events[k].message[2] # id
          /\ steam[f] = steam0[f] /\ dbox[g] = dbox0[g]

\* C6: a file whose identity resolves to IGNORE is never the source of a
\* copy, is never the file a lookup returns, and no notify call is made for it.
IdentityIn(ref) == POESaveName(ref.name, IF ref.dir = "steam" THEN steam[ref.name] ELSE dbox[ref.name])
C6_IgnoredExcludedStep ==
    /\ Resolved1 /\ dboxFile.st = "found" => POESaveName(dboxFile.name, dbox[dboxFile.name]) # IGNORE
    /\ Resolved2 /\ steamFile.st = "found" => POESaveName(steamFile.name, steam[steamFile.name]) # IGNORE
    /\ Len(copies') > Len(copies) =>
         /\ IdentityIn(copies'[Len(copies')].src) # IGNORE
         /\ copies'[Len(copies')].id # IGNORE
    /\ Len(events') > Len(events) => IdentityIn(events'[Len(events')].about) # IGNORE
C6_IgnoredExcluded == [][C6_IgnoredExcludedStep]_vars
\* an autosave whose archive names save "A" sat in the steam directory while
\* "A" was restored from Dropbox, with that one notification only
C6_Witness ==
    /\ Done1 /\ steam0[AutoName] # NoFile
    /\ Len(events) = 1
    /\ \E k \in 1..Len(copies) : copies[k].id = "A" /\ copies[k].dst.dir = "steam"

\* C7: no save that pass one copied from steam to Dropbox is copied from
\* Dropbox to steam by pass two of the same run.
C7_NoRecopy ==
    \A j, k \in 1..Len(copies) :
        /\ copies[j].run = copies[k].run
        /\ copies[j].pass = 1 /\ copies[j].dst.dir = "dbox"
        /\ copies[k].pass = 2
        => /\ copies[k].id # copies[j].id
           /\ copies[k].src # copies[j].dst
\* pass one put a new file into Dropbox and pass two restored another save
C7_Witness ==
    /\ Done1
    /\ \E j, k \in 1..Len(copies) :
         /\ copies[j].pass = 1 /\ copies[j].dst.dir = "dbox" /\ copies[j].over = NoFile
         /\ copies[k].pass = 2

\* C8: the iteration of a file whose identity resolves to EMPTY makes exactly
\* one notify call, normal priority, naming the file; it copies nothing and
\* changes no file, and the loop moves on to the next file of the listing.
ExtractFailStep(dirName, n) ==
    /\ Len(events') = Len(events) + 1
    /\ SubSeq(events', 1, Len(events)) = events
    /\ events'[Len(events')].priority = "normal"
    /\ events'[Len(events')].title = <<"Failed to extract name from save file", PathOf(dirName, n)>>
    /\ copies' = copies /\ steam' = steam /\ dbox' = dbox
    /\ pc' = pc /\ idx' = idx + 1
C8_EmptyReportedStep ==
    /\ InPass1 /\ baseName1 = EMPTY => ExtractFailStep("steam", f1)
    /\ InPass2 /\ baseName2 = EMPTY => ExtractFailStep("dbox", f2)
C8_EmptyReported == [][vars' # vars => C8_EmptyReportedStep]_vars
\* a run reported a steam file and a Dropbox file and went on to copy a save
C8_Witness ==
    /\ Done1
    /\ \E i, j, k \in 1..Len(events) :
         /\ i < k /\ j < k
         /\ events[i].title[1] = "Failed to extract name from save file" /\ events[i].about.dir = "steam"
         /\ events[j].title[1] = "Failed to extract name from save file" /\ events[j].about.dir = "dbox"
         /\ events[k].title[1] = "Synced save for"

\* C9: when the files of a pair that the run compares by time have a
\* timestamp of 0, the run exits at once: nothing is copied, no file changes,
\* no notification is made, and nothing happens after the exit.
ZeroTimePair ==
    Differ1 /\ (steam[f1].ts = 0 \/ dbox[dboxFile.name].ts = 0)
C9_ZeroTimeFatalStep ==
    /\ ZeroTimePair =>
         /\ pc' = "exited"
         /\ copies' = copies /\ events' = events /\ steam' = steam /\ dbox' = dbox
    /\ pc = "exited" => FALSE
C10_MalformedFileDoesNotAbort == pc # "crashed"

\* C11: a directory that cannot be listed is fatal for its entry only: the
\* process does not abort, it goes on to the end of gamesList, and nothing is
\* copied for the entry.
C11_UnreadableSkipsEntry ==
    ~readable.steam \/ ~readable.dbox => pc \in {"start", "done"} /\ copies = <<>>

\* C12: a copy that fails does not abort the run: syncEntry goes on with the
\* remaining files and the process with the remaining entries.
C12_CopyFailureDoesNotAbort == pc # "copyfailed"

\* ------------------------------------------------ compareFileTimes alone
\* Two archives, one per directory, carrying any two timestamps of CmpTimes;
\* the one step applies compareFileTimes to them and keeps the outcome in pc.
CmpTimes == {-100, -1, 0, 1, 2, 999999999, 1000000000, 1000000001,
             1500000000, 1500000001, 1500000002,
             2000000000, 2000000001, 2000000002, 2000000003}
CmpName == CHOOSE n \in SaveNames : TRUE
CmpFile(t) == [kind |-> "zip", user |-> "A", ts |-> t, sig |-> 1]
CmpDir(t) == [n \in Names |-> IF n = CmpName THEN CmpFile(t) ELSE NoFile]

InitCmp ==
    /\ \E t1, t2 \in CmpTimes : steam = CmpDir(t1) /\ dbox = CmpDir(t2)
    /\ readable = [steam |-> TRUE, dbox |-> TRUE]
    /\ steamFiles = <<CmpName>> /\ dboxFiles = <<CmpName>>
    /\ pc = "pass1" /\ idx = 1 /\ run = 1
    /\ events = <<>> /\ copies = <<>>
    /\ steam0 = steam /\ dbox0 = dbox
    /\ gentry = gamesList[1]

\* line 231: cmpres = compareFileTimes(f, dboxFile, gentry)
CompareStep ==
    /\ pc = "pass1"
    /\ pc' = compareFileTimes(steam[CmpName], dbox[CmpName])
    /\ UNCHANGED <<steam, dbox, steamFiles, dboxFiles, idx, run, events, copies,
                   steam0, dbox0, gentry, readable>>

NextCmp == CompareStep
SpecCmp == InitCmp /\ [][NextCmp]_vars

CmpT1 == steam[CmpName].ts
CmpT2 == dbox[CmpName].ts
\* |t1 - t2| <= max(10^-9 * max(|t1|, |t2|), 0), in whole numbers.  Every
\* timestamp is below 3 * 10^9, so a difference above 2 is outside tolerance.
WithinTolerance(t1, t2) ==
    /\ Abs(t1 - t2) <= 2
    /\ Abs(t1 - t2) * 1000000000 <= Max(Abs(t1), Abs(t2))
Negated(r) == IF r = "1" THEN "-1" ELSE IF r = "-1" THEN "1" ELSE r

\* C13: for non-zero timestamps compareFileTimes returns 0 exactly when the two
\* are within the relative tolerance 10^-9, 1 when the first is greater outside
\* tolerance, -1 when the second is; swapping the arguments negates the result.
C13_CompareContract ==
    pc # "pass1" /\ CmpT1 # 0 /\ CmpT2 # 0 =>
        /\ pc \in {"0", "1", "-1"}
        /\ pc = "0" <=> WithinTolerance(CmpT1, CmpT2)
        /\ pc = "1" <=> ~WithinTolerance(CmpT1, CmpT2) /\ CmpT1 > CmpT2
        /\ pc = "-1" <=> ~WithinTolerance(CmpT1, CmpT2) /\ CmpT2 > CmpT1
        /\ compareFileTimes(dbox[CmpName], steam[CmpName]) = Negated(pc)
\* two different timestamps compared Equal
C13_Witness == pc = "0" /\ CmpT1 # CmpT2 /\ CmpT1 # 0 /\ CmpT2 # 0

\* ------------------------------------------------ other configured paths
\* GameEntry takes any two paths.  Besides the entry of gamesList: an entry
\* whose steam directory lies below its Dropbox directory, and one whose Dropbox
\* directory lies below its steam directory.
MaxPathFiles == 2
PathEntries ==
    {gamesList[1],
     [name |-> entryName,
      steamPath |-> <<"/home/lefteris/", "Dropbox", "/steam">>,
      dropboxPath |-> <<"/home/lefteris/", "Dropbox">>],
     [name |-> entryName,
      steamPath |-> <<"/home/lefteris/", "saves">>,
      dropboxPath |-> <<"/home/lefteris/", "saves", "/dropbox">>]}

InitPaths ==
    /\ InitDirs
    /\ Cardinality(Present(steam)) + Cardinality(Present(dbox)) <= MaxPathFiles
    /\ gentry \in PathEntries
SpecPaths == InitPaths /\ [][Next]_vars

SyncedEvents == SelectSeq(events, LAMBDA e : e.title[1] = "Synced save for")

\* C14: every copy has exactly one sync-completed event, which carries the
\* identity of the copied save, the entry's name and the direction the copy
\* was made in: "to" Dropbox for a source in the steam directory, "from" Dropbox
\* for a source in the Dropbox directory, whatever the two paths are.
C14_DirectionReported ==
    /\ Len(SyncedEvents) = Len(copies)
    /\ \A i \in 1..Len(copies) :
         /\ SyncedEvents[i].title = <<"Synced save for", gentry.name>>
         /\ SyncedEvents[i].message =
              <<"Synced save", copies[i].id,
                IF copies[i].src.dir = "dbox" THEN "from" ELSE "to", "Dropbox">>

\* The strings a notify call was given
Payload(e) ==
    {e.title[i] : i \in 1..Len(e.title)} \cup {e.message[i] : i \in 1..Len(e.message)}

\* C15: the critical event of an unresolvable conflict names the identity of
\* the conflicting save.
C15_ConflictNamesIdentityStep ==
    (Len(events') = Len(events) + 1 /\ Last(events').priority = "critical")
        => baseName1 \in Payload(Last(events'))
C15_ConflictNamesIdentity == [][C15_ConflictNamesIdentityStep]_vars

\* C16: when a run completes without a critical event, every save held by
\* either directory is held by both, with the same bytes.
C16_Converged ==
    pc = "done" /\ Criticals(run) = {} =>
      \A id \in Identities :
        Holders(steam, id) \cup Holders(dbox, id) # {} =>
          \E f \in Holders(steam, id) : \E g \in Holders(dbox, id) :
             SameBytes(steam[f], dbox[g])

\* C17: a copy that overwrites a file overwrites a file of the same save as
\* its source, and a save held by a directory when the run starts is held by
\* that directory when the run completes.
C17_NoSaveDestroyed ==
    /\ \A k \in 1..Len(copies) :
         copies[k].over # NoFile =>
            POESaveName(copies[k].dst.name, copies[k].over) = copies[k].id
    /\ pc = "done" =>
         \A id \in Identities :
            /\ Holders(steam0, id) # {} => Holders(steam, id) # {}
            /\ Holders(dbox0, id) # {} => Holders(dbox, id) # {}

\* C18: the "should never happen" branch is never taken: whenever a differing
\* pair is compared the outcome is the exit or one of 0, 1, -1, and no
\* "Internal script error" event is ever emitted.
C18_InternalErrorUnreachable ==
    /\ ~InternalErrorBranch
    /\ \A k \in 1..Len(events) : events[k].title # <<"Internal script error">>
\* a differing pair compared, the Dropbox file newer
C18_Witness == Differ1 /\ cmpres = "-1"

====
